---- MODULE Spec2Model ----
(***************************************************************************)
(* Deployment status poller of the dashboard front end.                    *)
(*                                                                         *)
(* One poller is one mount of the hook useDeploymentStatus(deploymentId,   *)
(* {enabled, onStatusChange}).  The hook is built on a query of the shared *)
(* response cache with key ['deployment-status', deploymentId]; the query  *)
(* holds the last snapshot (data), its status, the fetch status, the       *)
(* failure count of the running fetch and the error of the last failed     *)
(* one.  The application's query client retries a failed attempt twice     *)
(* before the fetch is reported as failed.                                 *)
(*                                                                         *)
(* Spec follows one card (and a hook without id) through every operation   *)
(* of the hook.  PairSpec puts two cards next to the dashboard's list      *)
(* query ['deployments'].  AuthSpec follows the session: the auth store,   *)
(* the token in localStorage and the API client's interceptors.            *)
(***************************************************************************)
EXTENDS Naturals, FiniteSets, Sequences, TLC

\* ------------------------------------------------------------------------
\* Values
\* ------------------------------------------------------------------------

\* Absent value: undefined / null in the source.
None == "none"

\* The hook mounted without a deployment id (deploymentId === undefined).
NoId == "undefined"

\* Deployment ids with a card on the dashboard.
Ids == {"abc", "xyz"}

\* One poller per id, and one mounted without an id.
Pollers == Ids \cup {NoId}

ActiveStatuses == {"configuring", "provisioning", "starting", "restarting"}

\* The DeploymentStatus union of the types module.
DeploymentStatus ==
    {"idle", "configuring", "provisioning", "starting",
     "healthy", "stopped", "error", "restarting"}

\* What the backend may put in the status field: the union is a compile-time
\* type only, so a value outside it reaches the hook unchanged.
ResponseStatus == DeploymentStatus \cup {"unknown"}

\* The actions of a card: handleAction(id, action).
ActionKinds == {"start", "stop", "restart", "remove"}

\* No action request is out.
NoAction == [id |-> None, action |-> None]

\* The messages a failed getStatus call is rejected with.
FailureKinds == {"Network error", "application error"}

\* ------------------------------------------------------------------------
\* Constants of the source
\* ------------------------------------------------------------------------

POLLING_INTERVAL_ACTIVE == 1000

POLLING_INTERVAL_HEALTHY == 30000

POLLING_INTERVAL_ERROR == 5000

retryMore == 2 + 1

\* defaultOptions.queries.retry of the application's query client.
retry == 2

\* Saturation of the per-fetch callback counter.
MaxCb == 2

VARIABLES
    mounted,          \* poller -> the hook is mounted (the query has an observer)
    enabled,          \* poller -> the enabled option of the mounted hook
    onStatusChange,   \* poller -> an onStatusChange callback was given
    data,             \* poller -> status of the cached snapshot, or None
    status,           \* poller -> query status: pending | success | error
    fetchStatus,      \* poller -> idle | fetching (request out) | retrying (sleeping)
    error,            \* poller -> message of the last failed fetch, or None
    failureReason,    \* poller -> message of the last failed attempt of the running fetch
    failureCount,     \* poller -> failed attempts of the running / last fetch
    retrySleep,       \* poller -> delay of the pending retry, 0 when none
    retryCancelled,   \* poller -> the running fetch may not retry any more
    timer,            \* poller -> delay of the armed refetch timer, 0 when none
    staleDeployment,  \* id -> ['deployment', id] is marked stale
    staleDeployments, \* ['deployments'] is marked stale
    transition,       \* poller -> what the last completed fetch did to the snapshot
    rendered,         \* poller -> the hook has rendered since the last completed fetch
    cbCount,          \* poller -> onStatusChange calls since the last completed fetch
    lastCb,           \* poller -> status passed to the last onStatusChange call
    cbPrev,           \* poller -> status passed to the call before that one
    invIssued,        \* poller -> invalidations issued since the last completed fetch
    called,           \* poller -> getStatus was called during a mount never enabled
    everEnabled,      \* poller -> the query was enabled at some render of this mount
    inFlight,         \* poller -> getStatus requests sent and not yet answered
    returned,         \* poller -> status of the snapshot getStatus returned last
    comparedWithNew,  \* poller -> the last render took the snapshot just written
                      \*           as the previous one
    lsToken,          \* localStorage 'token', or None
    user,             \* auth store: user, or None
    token,            \* auth store: token, or None
    isAuthenticated,  \* auth store: isAuthenticated
    isLoading,        \* auth store: isLoading
    location,         \* window.location path
    pending,          \* request kind -> a request of that kind is out
    header,           \* Authorization header of the last request sent
    sentSince,        \* a request was sent since lastAuthEvent happened
    lastError,        \* message of the Error the last failed request threw
    lastResponse,     \* the failure the interceptor got for that request
    lastFailed,       \* the request it belonged to: a request kind or, for a
                      \* status call with a rejected token, the deployment id
    lastAuthEvent,    \* the last operation that wrote or removed the stored token
    issued,           \* the token the last login or refresh returned
    lastOp,           \* the store operation or startup check that ended in the
                      \* last step, None when the last step was something else
    listData,         \* ['deployments']: the cached list, or None
    listStatus,       \* ['deployments']: pending | success | error
    listFetching,     \* ['deployments']: a fetch is running
    listError,        \* ['deployments']: message of the last failed fetch, or None
    record,           \* id -> status of the deployment's record in the list, or None
    actionPending,    \* the deployment action whose request is out, or None
    showCreateForm,   \* App: the create form is open
    createPending,    \* a deploymentsApi.create request is out
    subscriptionStatus, \* user.subscriptionStatus of the store's user
    tier,             \* user.tier of the store's user
    actionResult,     \* how the last deployment action ended, or None
    lastCreate        \* hasActiveSub when deploymentsApi.create was last called

vars == <<mounted, enabled, onStatusChange, data, status, fetchStatus, error,
          failureReason, failureCount, retrySleep, retryCancelled, timer,
          staleDeployment, staleDeployments, transition, rendered, cbCount,
          lastCb, cbPrev, invIssued, called, everEnabled, inFlight, returned,
          comparedWithNew, lsToken, user, token, isAuthenticated, isLoading,
          location, pending, header, sentSince, lastError, lastResponse,
          lastFailed, lastAuthEvent, issued, lastOp, listData, listStatus,
          listFetching, listError, record, actionPending, showCreateForm,
          createPending, subscriptionStatus, tier, actionResult, lastCreate>>

pollerVars == <<mounted, enabled, onStatusChange, data, status, fetchStatus,
                error, failureReason, failureCount, retrySleep, retryCancelled,
                timer, staleDeployment, staleDeployments, transition, rendered,
                cbCount, lastCb, cbPrev, invIssued, called, everEnabled,
                inFlight, returned, comparedWithNew>>

storeVars == <<user, token, isAuthenticated, isLoading>>

authVars == <<lsToken, user, token, isAuthenticated, isLoading, location,
              pending, header, sentSince, lastError, lastResponse, lastFailed,
              lastAuthEvent, issued, lastOp>>

listVars == <<listData, listStatus, listFetching, listError>>

\* What the dashboard page holds in memory besides the query cache.
pageVars == <<record, actionPending, showCreateForm, createPending>>

\* The subscription fields of the store's user; they are persisted with it.
profileVars == <<subscriptionStatus, tier>>

dashHistory == <<actionResult, lastCreate>>

dashVars == <<pageVars, profileVars, dashHistory>>

queryVars == <<data, status, fetchStatus, error, failureReason, failureCount,
               retrySleep, retryCancelled, inFlight>>

hookEffects == <<staleDeployment, staleDeployments, cbCount, lastCb, cbPrev,
                 invIssued>>

fetchHistory == <<transition, rendered, returned, comparedWithNew>>

\* ------------------------------------------------------------------------
\* The API client's interceptors
\* ------------------------------------------------------------------------

Tokens == {"t1", "t2"}

\* The calls that go through apiClient: authApi.login (register and google
\* are handled the same way), authApi.refresh, authApi.me, getStatus, list.
RequestKinds == {"login", "refresh", "me", "getStatus", "list"}

NoHeader == "no Authorization header"

\* What the response interceptor's error handler is given: code and
\* serverMessage are error.response.data.error (code None: no such body),
\* message is the AxiosError's own message.
NoResponse == [code |-> None, serverMessage |-> None, message |-> None]

Failures ==
    {[code |-> "TOKEN_EXPIRED", serverMessage |-> "Token expired",
      message |-> "Request failed with status code 401"],
     [code |-> "INVALID_TOKEN", serverMessage |-> "",
      message |-> "Request failed with status code 401"],
     [code |-> "NOT_FOUND", serverMessage |-> "Deployment not found",
      message |-> "Request failed with status code 404"],
     [code |-> None, serverMessage |-> None,
      message |-> "timeout of 30000ms exceeded"],
     [code |-> None, serverMessage |-> None, message |-> ""]}

requestInterceptorFromStore(ls) ==
    IF token = None THEN NoHeader ELSE "Bearer " \o token

\* Request interceptor: the header it sets from localStorage.getItem('token').
requestInterceptor(ls) == IF ls = None THEN NoHeader ELSE "Bearer " \o ls

errorMessageNoFallback(r) ==
    IF r.code # None THEN r.serverMessage ELSE r.message

\* Response interceptor: the message of the Error it throws.
errorMessage(r) ==
    IF r.code # None THEN r.serverMessage
    ELSE IF r.message # "" THEN r.message
    ELSE "Network error"

\* Response interceptor: the codes that remove the token and redirect.
tokenRejected(r) == r.code \in {"TOKEN_EXPIRED", "INVALID_TOKEN"}

\* ------------------------------------------------------------------------
\* The polling policy
\* ------------------------------------------------------------------------

refetchIntervalStopsWhenHealthy(d) ==
    IF d = None THEN POLLING_INTERVAL_ACTIVE
    ELSE IF d \in ActiveStatuses THEN POLLING_INTERVAL_ACTIVE
    ELSE IF d \in {"error", "stopped"} THEN POLLING_INTERVAL_ERROR
    ELSE IF d = "healthy" THEN 0
    ELSE POLLING_INTERVAL_HEALTHY

refetchIntervalNoRestarting(d) ==
    IF d = None THEN POLLING_INTERVAL_ACTIVE
    ELSE IF d \in {"configuring", "provisioning", "starting"}
         THEN POLLING_INTERVAL_ACTIVE
    ELSE IF d \in {"error", "stopped"} THEN POLLING_INTERVAL_ERROR
    ELSE POLLING_INTERVAL_HEALTHY

refetchIntervalNoStopped(d) ==
    IF d = None THEN POLLING_INTERVAL_ACTIVE
    ELSE IF d \in ActiveStatuses THEN POLLING_INTERVAL_ACTIVE
    ELSE IF d \in {"error"} THEN POLLING_INTERVAL_ERROR
    ELSE POLLING_INTERVAL_HEALTHY

refetchIntervalIdleActive(d) ==
    IF d = None THEN POLLING_INTERVAL_ACTIVE
    ELSE IF d \in ActiveStatuses \cup {"idle"} THEN POLLING_INTERVAL_ACTIVE
    ELSE IF d \in {"error", "stopped"} THEN POLLING_INTERVAL_ERROR
    ELSE POLLING_INTERVAL_HEALTHY

\* refetchInterval: the delay before the next poll, from the cached snapshot.
refetchInterval(d) ==
    IF d = None THEN POLLING_INTERVAL_ACTIVE
    ELSE IF d \in {"configuring", "provisioning", "starting", "restarting"}
         THEN POLLING_INTERVAL_ACTIVE
    ELSE IF d \in {"error", "stopped"} THEN POLLING_INTERVAL_ERROR
    ELSE POLLING_INTERVAL_HEALTHY

RECURSIVE Pow2(_)
Pow2(n) == IF n = 0 THEN 1 ELSE 2 * Pow2(n - 1)

Min(a, b) == IF a < b THEN a ELSE b

\* Delay before the retry that follows the (n+1)-th failed attempt: the
\* query client sets retry only, so the delay doubles from one second up to
\* thirty.
defaultRetryDelay(n) == Min(1000 * Pow2(n), 30000)

\* The caller gave an id and did not switch polling off.
optionsEnabled(p, en) == p # NoId /\ en

queryEnabledIgnoringOption(p, en) == p # NoId

\* enabled: !!deploymentId && enabled
queryEnabled(p, en) == p # NoId /\ en

\* The refetch timer the observer arms: none unless mounted and enabled.
armedTimer(p, m, en, d) ==
    IF m /\ queryEnabled(p, en) THEN refetchInterval(d) ELSE 0

\* ------------------------------------------------------------------------
\* What the hook reads and returns
\* ------------------------------------------------------------------------

\* query.data?.status: the observer's result is the query's current data.
queryData(p) == data[p]

previousStatusWrongKey(p) == None

\* previousStatus: queryClient.getQueryData(['deployment-status', id])?.status,
\* read during render, after the fetch result was written to the cache.
previousStatus(p) == data[p]

isDeploying(p) == queryData(p) # None /\ queryData(p) \in ActiveStatuses

isHealthy(p) == queryData(p) = "healthy"

isErrorOfQuery(p) == status[p] = "error"

\* The isError field of the returned object: it replaces the query's own.
isError(p) == queryData(p) = "error"

isStoppedNotHealthy(p) == queryData(p) # "healthy"

isStopped(p) == queryData(p) = "stopped"

\* The remaining indicators of the underlying query that the hook spreads
\* into its result.
isLoadingError(p) == status[p] = "error" /\ data[p] = None

isRefetchError(p) == status[p] = "error" /\ data[p] # None

\* ------------------------------------------------------------------------
\* Initial state: nothing mounted, empty cache
\* ------------------------------------------------------------------------

pollerInit ==
    /\ mounted = [p \in Pollers |-> FALSE]
    /\ enabled = [p \in Pollers |-> FALSE]
    /\ onStatusChange = [p \in Pollers |-> FALSE]
    /\ data = [p \in Pollers |-> None]
    /\ status = [p \in Pollers |-> "pending"]
    /\ fetchStatus = [p \in Pollers |-> "idle"]
    /\ error = [p \in Pollers |-> None]
    /\ failureReason = [p \in Pollers |-> None]
    /\ failureCount = [p \in Pollers |-> 0]
    /\ retrySleep = [p \in Pollers |-> 0]
    /\ retryCancelled = [p \in Pollers |-> FALSE]
    /\ timer = [p \in Pollers |-> 0]
    /\ staleDeployment = [p \in Pollers |-> FALSE]
    /\ staleDeployments = FALSE
    /\ transition = [p \in Pollers |-> "none"]
    /\ rendered = [p \in Pollers |-> FALSE]
    /\ cbCount = [p \in Pollers |-> 0]
    /\ lastCb = [p \in Pollers |-> None]
    /\ cbPrev = [p \in Pollers |-> None]
    /\ invIssued = [p \in Pollers |-> FALSE]
    /\ called = [p \in Pollers |-> FALSE]
    /\ everEnabled = [p \in Pollers |-> FALSE]
    /\ inFlight = [p \in Pollers |-> 0]
    /\ returned = [p \in Pollers |-> None]
    /\ comparedWithNew = [p \in Pollers |-> FALSE]

\* The list query before its first fetch.
listInit ==
    /\ listData = None
    /\ listStatus = "pending"
    /\ listFetching = FALSE
    /\ listError = None

\* A signed-in user: the stored token and the persisted store are there,
\* checkAuth has finished (its authApi.me request carried the token).
authInit ==
    /\ lsToken = "t1"
    /\ user = "u"
    /\ token = "t1"
    /\ isAuthenticated = TRUE
    /\ isLoading = FALSE
    /\ location = "/"
    /\ pending = [k \in RequestKinds |-> FALSE]
    /\ header = "Bearer t1"
    /\ sentSince = TRUE
    /\ lastError = None
    /\ lastResponse = NoResponse
    /\ lastFailed = None
    /\ lastAuthEvent = "login"
    /\ issued = "t1"
    /\ lastOp = None

\* No card yet, the create form closed, a user with the paid plan.
dashInit ==
    /\ record = [p \in Ids |-> None]
    /\ actionPending = NoAction
    /\ showCreateForm = FALSE
    /\ createPending = FALSE
    /\ subscriptionStatus = "active"
    /\ tier = "starter"
    /\ actionResult = None
    /\ lastCreate = None

\* The dashboard of a signed-in user with its list loaded and no card
\* mounted yet.
Init ==
    /\ pollerInit
    /\ authInit
    /\ dashInit
    /\ listData = "deployments"
    /\ listStatus = "success"
    /\ listFetching = FALSE
    /\ listError = None

\* ------------------------------------------------------------------------
\* The query's fetch
\* ------------------------------------------------------------------------

\* A fetch of an idle query: queryFn runs, getStatus(deploymentId) is called.
\* Without data the query goes back to pending and drops its error.
BeginFetch(p) ==
    /\ fetchStatus' = [fetchStatus EXCEPT ![p] = "fetching"]
    /\ failureCount' = [failureCount EXCEPT ![p] = 0]
    /\ failureReason' = [failureReason EXCEPT ![p] = None]
    /\ status' = [status EXCEPT ![p] = IF data[p] = None THEN "pending" ELSE @]
    /\ error' = [error EXCEPT ![p] = IF data[p] = None THEN None ELSE @]
    /\ retrySleep' = [retrySleep EXCEPT ![p] = 0]
    /\ retryCancelled' = [retryCancelled EXCEPT ![p] = FALSE]
    /\ inFlight' = [inFlight EXCEPT ![p] = @ + 1]
    /\ UNCHANGED data

\* A fetch of a query that is already fetching joins the running one: no
\* second request, the running one may retry again.
JoinFetch(p) ==
    /\ retryCancelled' = [retryCancelled EXCEPT ![p] = FALSE]
    /\ UNCHANGED <<data, status, fetchStatus, error, failureReason,
                   failureCount, retrySleep, inFlight>>

\* getStatus is called while the hook is mounted and its query was never
\* enabled during this mount.
calledWhileOff(p, m, ever) == m /\ ~ever

executeFetchAlways(p, wanted) ==
    IF ~wanted THEN UNCHANGED queryVars
    ELSE BeginFetch(p)

\* The observer's fetch, when it wants one.
executeFetch(p, wanted) ==
    IF ~wanted THEN UNCHANGED queryVars
    ELSE IF fetchStatus[p] = "idle" THEN BeginFetch(p)
    ELSE JoinFetch(p)

\* ------------------------------------------------------------------------
\* Mounting, options, timer
\* ------------------------------------------------------------------------

\* The card mounts the hook.  An enabled query fetches on mount when it has
\* no data or its data is older than staleTime.
Mount(p, en, cb, stale) ==
    /\ UNCHANGED <<authVars, listVars, dashVars>>
    /\ ~mounted[p]
    /\ isAuthenticated /\ ~isLoading /\ listData # None
    /\ mounted' = [mounted EXCEPT ![p] = TRUE]
    /\ enabled' = [enabled EXCEPT ![p] = en]
    /\ onStatusChange' = [onStatusChange EXCEPT ![p] = cb]
    /\ everEnabled' = [everEnabled EXCEPT ![p] = optionsEnabled(p, en)]
    /\ timer' = [timer EXCEPT ![p] = armedTimer(p, TRUE, en, data[p])]
    /\ IF queryEnabled(p, en) /\ (data[p] = None \/ stale)
       THEN /\ executeFetch(p, TRUE)
            /\ called' = [called EXCEPT
                            ![p] = fetchStatus[p] = "idle"
                                   /\ calledWhileOff(p, TRUE, optionsEnabled(p, en))]
       ELSE /\ UNCHANGED queryVars
            /\ called' = [called EXCEPT ![p] = FALSE]
    /\ UNCHANGED <<hookEffects, fetchHistory>>

UnmountKeepingRetries(p) ==
    /\ UNCHANGED <<authVars, listVars, dashVars>>
    /\ mounted[p]
    /\ mounted' = [mounted EXCEPT ![p] = FALSE]
    /\ enabled' = [enabled EXCEPT ![p] = FALSE]
    /\ onStatusChange' = [onStatusChange EXCEPT ![p] = FALSE]
    /\ timer' = [timer EXCEPT ![p] = 0]
    /\ called' = [called EXCEPT ![p] = FALSE]
    /\ everEnabled' = [everEnabled EXCEPT ![p] = FALSE]
    /\ UNCHANGED <<queryVars, hookEffects, fetchHistory>>

\* The card unmounts: the observer is removed, its timer is cleared and the
\* running fetch loses its retries.
Unmount(p) ==
    /\ UNCHANGED <<authVars, listVars, dashVars>>
    /\ mounted[p]
    /\ mounted' = [mounted EXCEPT ![p] = FALSE]
    /\ enabled' = [enabled EXCEPT ![p] = FALSE]
    /\ onStatusChange' = [onStatusChange EXCEPT ![p] = FALSE]
    /\ timer' = [timer EXCEPT ![p] = 0]
    /\ retryCancelled' = [retryCancelled EXCEPT ![p] = fetchStatus[p] # "idle"]
    /\ called' = [called EXCEPT ![p] = FALSE]
    /\ everEnabled' = [everEnabled EXCEPT ![p] = FALSE]
    /\ UNCHANGED <<data, status, fetchStatus, error, failureReason,
                   failureCount, retrySleep, inFlight, hookEffects,
                   fetchHistory>>

\* A render passes the other value of the enabled option.
SetEnabled(p, stale) ==
    /\ UNCHANGED <<authVars, listVars, dashVars>>
    /\ mounted[p]
    /\ enabled' = [enabled EXCEPT ![p] = ~enabled[p]]
    /\ everEnabled' = [everEnabled EXCEPT
                         ![p] = @ \/ optionsEnabled(p, ~enabled[p])]
    /\ timer' = [timer EXCEPT ![p] = armedTimer(p, TRUE, ~enabled[p], data[p])]
    /\ executeFetch(p, queryEnabled(p, ~enabled[p]) /\ (data[p] = None \/ stale))
    /\ called' = [called EXCEPT
                    ![p] = @ \/ (/\ queryEnabled(p, ~enabled[p])
                                 /\ (data[p] = None \/ stale)
                                 /\ fetchStatus[p] = "idle"
                                 /\ calledWhileOff(p, TRUE, everEnabled'[p]))]
    /\ UNCHANGED <<mounted, onStatusChange, hookEffects, fetchHistory>>

\* The refetch timer fires.
Tick(p) ==
    /\ UNCHANGED <<authVars, listVars, dashVars>>
    /\ timer[p] > 0
    /\ executeFetch(p, TRUE)
    /\ called' = [called EXCEPT
                    ![p] = @ \/ (/\ fetchStatus[p] = "idle"
                                 /\ calledWhileOff(p, mounted[p], everEnabled[p]))]
    /\ timer' = [timer EXCEPT ![p] = armedTimer(p, mounted[p], enabled[p], data[p])]
    /\ UNCHANGED <<mounted, enabled, onStatusChange, everEnabled, hookEffects,
                   fetchHistory>>

\* gcTime has passed since the last observer left: the cache drops the idle
\* query and its snapshot.
GarbageCollect(p) ==
    /\ UNCHANGED <<authVars, listVars, dashVars>>
    /\ ~mounted[p]
    /\ fetchStatus[p] = "idle"
    /\ status[p] # "pending"
    /\ data' = [data EXCEPT ![p] = None]
    /\ status' = [status EXCEPT ![p] = "pending"]
    /\ error' = [error EXCEPT ![p] = None]
    /\ failureReason' = [failureReason EXCEPT ![p] = None]
    /\ failureCount' = [failureCount EXCEPT ![p] = 0]
    /\ transition' = [transition EXCEPT ![p] = "none"]
    /\ rendered' = [rendered EXCEPT ![p] = FALSE]
    /\ cbCount' = [cbCount EXCEPT ![p] = 0]
    /\ invIssued' = [invIssued EXCEPT ![p] = FALSE]
    /\ returned' = [returned EXCEPT ![p] = None]
    /\ comparedWithNew' = [comparedWithNew EXCEPT ![p] = FALSE]
    /\ UNCHANGED <<mounted, enabled, onStatusChange, fetchStatus, retrySleep,
                   retryCancelled, timer, staleDeployment, staleDeployments,
                   lastCb, cbPrev, called, everEnabled, inFlight>>

\* ------------------------------------------------------------------------
\* Completion of a getStatus call
\* ------------------------------------------------------------------------

statusKeyOfOther(p) == IF p = "abc" THEN "xyz" ELSE "abc"

\* queryKey ['deployment-status', deploymentId]: the cache entry of p's hook.
statusKey(p) == p

setDataKeepingFirst(old, s) == IF old = None THEN s ELSE old

\* The value the cache keeps when a fetch resolves: the snapshot returned.
setData(old, s) == s

\* getStatus resolves with a snapshot of status s: it replaces the cached one.
FetchSuccess(p, s) ==
    /\ UNCHANGED <<authVars, listVars, dashVars>>
    /\ fetchStatus[p] = "fetching"
    /\ data' = [data EXCEPT ![statusKey(p)] = setData(@, s)]
    /\ returned' = [returned EXCEPT ![p] = s]
    /\ comparedWithNew' = [comparedWithNew EXCEPT ![p] = FALSE]
    /\ inFlight' = [inFlight EXCEPT ![p] = @ - 1]
    /\ status' = [status EXCEPT ![p] = "success"]
    /\ error' = [error EXCEPT ![p] = None]
    /\ failureReason' = [failureReason EXCEPT ![p] = None]
    /\ failureCount' = [failureCount EXCEPT ![p] = 0]
    /\ fetchStatus' = [fetchStatus EXCEPT ![p] = "idle"]
    /\ retrySleep' = [retrySleep EXCEPT ![p] = 0]
    /\ retryCancelled' = [retryCancelled EXCEPT ![p] = FALSE]
    /\ timer' = [timer EXCEPT ![p] = armedTimer(p, mounted[p], enabled[p], s)]
    /\ transition' = [transition EXCEPT
                        ![p] = IF data[p] = None THEN "first"
                               ELSE IF data[p] = s THEN "same" ELSE "changed"]
    /\ rendered' = [rendered EXCEPT ![p] = FALSE]
    /\ cbCount' = [cbCount EXCEPT ![p] = 0]
    /\ invIssued' = [invIssued EXCEPT ![p] = FALSE]
    /\ UNCHANGED <<mounted, enabled, onStatusChange, staleDeployment,
                   staleDeployments, lastCb, cbPrev, called, everEnabled>>

settleErrorEverywhere(p, e) ==
    /\ status' = [q \in Pollers |-> "error"]
    /\ error' = [q \in Pollers |-> e]
    /\ failureReason' = [failureReason EXCEPT ![p] = e]
    /\ failureCount' = [failureCount EXCEPT ![p] = @ + 1]
    /\ fetchStatus' = [fetchStatus EXCEPT ![p] = "idle"]
    /\ retrySleep' = [retrySleep EXCEPT ![p] = 0]
    /\ retryCancelled' = [retryCancelled EXCEPT ![p] = FALSE]
    /\ UNCHANGED data

settleErrorDroppingData(p, e) ==
    /\ status' = [status EXCEPT ![p] = "error"]
    /\ error' = [error EXCEPT ![p] = e]
    /\ failureReason' = [failureReason EXCEPT ![p] = e]
    /\ failureCount' = [failureCount EXCEPT ![p] = @ + 1]
    /\ fetchStatus' = [fetchStatus EXCEPT ![p] = "idle"]
    /\ retrySleep' = [retrySleep EXCEPT ![p] = 0]
    /\ retryCancelled' = [retryCancelled EXCEPT ![p] = FALSE]
    /\ data' = [data EXCEPT ![p] = None]

\* The fetch settles as failed: the query's status becomes error, its data
\* stays.
settleError(p, e) ==
    /\ status' = [status EXCEPT ![p] = "error"]
    /\ error' = [error EXCEPT ![p] = e]
    /\ failureReason' = [failureReason EXCEPT ![p] = e]
    /\ failureCount' = [failureCount EXCEPT ![p] = @ + 1]
    /\ fetchStatus' = [fetchStatus EXCEPT ![p] = "idle"]
    /\ retrySleep' = [retrySleep EXCEPT ![p] = 0]
    /\ retryCancelled' = [retryCancelled EXCEPT ![p] = FALSE]
    /\ UNCHANGED data

\* getStatus rejects with message e.  While retries are left the query sleeps
\* and tries again; after the last one the fetch has failed.
FetchFail(p, e) ==
    /\ UNCHANGED <<authVars, listVars, dashVars>>
    /\ fetchStatus[p] = "fetching"
    /\ IF failureCount[p] < retry /\ ~retryCancelled[p]
       THEN /\ failureCount' = [failureCount EXCEPT ![p] = @ + 1]
            /\ failureReason' = [failureReason EXCEPT ![p] = e]
            /\ fetchStatus' = [fetchStatus EXCEPT ![p] = "retrying"]
            /\ retrySleep' = [retrySleep EXCEPT
                                ![p] = defaultRetryDelay(failureCount[p])]
            /\ UNCHANGED <<data, status, error, retryCancelled>>
       ELSE settleError(p, e)
    /\ inFlight' = [inFlight EXCEPT ![p] = @ - 1]
    /\ timer' = [timer EXCEPT ![p] = armedTimer(p, mounted[p], enabled[p], data[p])]
    /\ UNCHANGED <<mounted, enabled, onStatusChange, hookEffects, fetchHistory,
                   called, everEnabled>>

\* The retry sleep ends: the next attempt calls getStatus again, unless the
\* retries were cancelled meanwhile.
RetryFire(p) ==
    /\ UNCHANGED <<authVars, listVars, dashVars>>
    /\ fetchStatus[p] = "retrying"
    /\ IF retryCancelled[p]
       THEN /\ settleError(p, failureReason[p])
            /\ UNCHANGED <<called, inFlight>>
       ELSE /\ fetchStatus' = [fetchStatus EXCEPT ![p] = "fetching"]
            /\ retrySleep' = [retrySleep EXCEPT ![p] = 0]
            /\ called' = [called EXCEPT
                            ![p] = @ \/ calledWhileOff(p, mounted[p], everEnabled[p])]
            /\ inFlight' = [inFlight EXCEPT ![p] = @ + 1]
            /\ UNCHANGED <<data, status, error, failureReason, failureCount,
                           retryCancelled>>
    /\ timer' = [timer EXCEPT ![p] = armedTimer(p, mounted[p], enabled[p], data[p])]
    /\ UNCHANGED <<mounted, enabled, onStatusChange, hookEffects, fetchHistory,
                   everEnabled>>

\* ------------------------------------------------------------------------
\* Render of the hook body
\* ------------------------------------------------------------------------

\* if (query.data && query.data.status !== previousStatus): call
\* onStatusChange and invalidate ['deployment', id] and ['deployments'].
Render(p) ==
    /\ UNCHANGED <<authVars, listVars, dashVars>>
    /\ mounted[p]
    /\ rendered' = [rendered EXCEPT ![p] = TRUE]
    /\ comparedWithNew' = [comparedWithNew EXCEPT
                             ![p] = /\ queryData(p) # None
                                    /\ previousStatus(p) = returned[p]]
    /\ IF queryData(p) # None /\ queryData(p) # previousStatus(p)
       THEN /\ IF onStatusChange[p]
               THEN /\ cbCount' = [cbCount EXCEPT ![p] = Min(@ + 1, MaxCb)]
                    /\ lastCb' = [lastCb EXCEPT ![p] = queryData(p)]
                    /\ cbPrev' = [cbPrev EXCEPT ![p] = lastCb[p]]
               ELSE UNCHANGED <<cbCount, lastCb, cbPrev>>
            /\ staleDeployment' = [staleDeployment EXCEPT ![p] = TRUE]
            /\ staleDeployments' = TRUE
            /\ invIssued' = [invIssued EXCEPT ![p] = TRUE]
       ELSE UNCHANGED hookEffects
    /\ UNCHANGED <<mounted, enabled, onStatusChange, queryVars, timer,
                   transition, returned, called, everEnabled>>

\* The cards of Spec: one deployment's card and one without an id.
MainPollers == {"abc", NoId}

Next ==
    \/ \E p \in MainPollers, en \in BOOLEAN, cb \in BOOLEAN, stale \in BOOLEAN :
          Mount(p, en, cb, stale)
    \/ \E p \in MainPollers : Unmount(p)
    \/ \E p \in MainPollers, stale \in BOOLEAN : SetEnabled(p, stale)
    \/ \E p \in MainPollers : Tick(p)
    \/ \E p \in MainPollers : GarbageCollect(p)
    \/ \E p \in MainPollers, s \in ResponseStatus : FetchSuccess(p, s)
    \/ \E p \in MainPollers, e \in FailureKinds : FetchFail(p, e)
    \/ \E p \in MainPollers : RetryFire(p)
    \/ \E p \in MainPollers : Render(p)

Spec == Init /\ [][Next]_vars

TypeOK ==
    /\ data \in [Pollers -> ResponseStatus \cup {None}]
    /\ status \in [Pollers -> {"pending", "success", "error"}]
    /\ fetchStatus \in [Pollers -> {"idle", "fetching", "retrying"}]
    /\ failureCount \in [Pollers -> 0..(retry + 1)]
    /\ timer \in [Pollers -> {0, 1000, 5000, 30000}]

\* ------------------------------------------------------------------------
\* Properties
\* ------------------------------------------------------------------------

\* The hook is mounted with an id and enabled = true.
polling(p) == mounted[p] /\ p # NoId /\ enabled[p]

\* C1: for a mounted, enabled poller that was given onStatusChange, once the
\* hook has rendered after a completed fetch whose status differs from the one
\* cached before it, onStatusChange has been called exactly once for that
\* fetch, with the new status.
C1_CallbackOncePerTransition ==
    \A p \in Ids :
        (polling(p) /\ onStatusChange[p] /\ transition[p] = "changed"
         /\ rendered[p])
        => (cbCount[p] = 1 /\ lastCb[p] = data[p])

\* C2: once the hook has rendered after a completed fetch whose status differs
\* from the one cached before it, ['deployment', id] and ['deployments'] are
\* marked stale.
C2_InvalidatesOnTransition ==
    \A p \in Ids :
        (polling(p) /\ transition[p] = "changed" /\ rendered[p])
        => (invIssued[p] /\ staleDeployment[p] /\ staleDeployments)

\* C3: a completed fetch that returns the status already cached brings no
\* onStatusChange call and no invalidation, and onStatusChange is never called
\* twice in a row with the same status.
C3_NoCallbackWithoutChange ==
    \A p \in Pollers :
        /\ transition[p] = "same" => (cbCount[p] = 0 /\ ~invIssued[p])
        /\ lastCb[p] # None => lastCb[p] # cbPrev[p]

C3_Witness ==
    \E p \in Ids :
        /\ polling(p) /\ onStatusChange[p]
        /\ transition[p] = "same" /\ rendered[p]
        /\ data[p] = "healthy"

C6_RetryOnCadence ==
    \A p \in Pollers :
        fetchStatus[p] = "retrying" => retrySleep[p] = refetchInterval(data[p])

\* C6 amended: a failed attempt is retried at most twice, after 1000 ms and
\* then 2000 ms whatever the cached snapshot; once the fetch has failed,
\* polling goes on with the delay of the cadence table for the cached snapshot
\* (1000 ms without one), and no failure leaves a polling hook without timer.
C6_RetriesThenCadence ==
    \A p \in Pollers :
        /\ fetchStatus[p] = "retrying"
           => /\ failureCount[p] \in {1, 2}
              /\ retrySleep[p] = IF failureCount[p] = 1 THEN 1000 ELSE 2000
        /\ fetchStatus[p] # "retrying" => retrySleep[p] = 0
        /\ (polling(p) /\ status[p] = "error")
           => /\ timer[p] = refetchInterval(data[p])
              /\ timer[p] > 0
        /\ failureCount[p] <= 3

C6_Witness ==
    \E p \in Ids :
        /\ polling(p) /\ status[p] = "error" /\ fetchStatus[p] = "idle"
        /\ failureCount[p] = 3
        /\ data[p] = "healthy" /\ timer[p] = 30000

\* C7: with a cached snapshot that is configuring, provisioning, starting or
\* restarting, the delay of the next poll is 1000 ms.
C7_ActiveDelay ==
    /\ \A s \in {"configuring", "provisioning", "starting", "restarting"} :
          refetchInterval(s) = 1000
    /\ \A p \in Pollers :
          (polling(p)
           /\ data[p] \in {"configuring", "provisioning", "starting", "restarting"})
          => timer[p] = 1000

C7_Witness ==
    \E p \in Ids :
        polling(p) /\ data[p] = "restarting" /\ timer[p] = 1000 /\ rendered[p]

\* C8: with a cached snapshot that is error or stopped, the delay of the next
\* poll is 5000 ms.
C8_ErrorStoppedDelay ==
    /\ \A s \in {"error", "stopped"} : refetchInterval(s) = 5000
    /\ \A p \in Pollers :
          (polling(p) /\ data[p] \in {"error", "stopped"}) => timer[p] = 5000

C8_Witness ==
    \E p \in Ids :
        polling(p) /\ data[p] = "stopped" /\ timer[p] = 5000 /\ rendered[p]

\* C9: the delay of the next poll is 1000 ms without a snapshot, 30000 ms for
\* healthy and for every status outside the active and error/stopped sets; it
\* depends on the snapshot alone and is always 1000, 5000 or 30000.
C9_DefaultDelays ==
    /\ refetchInterval(None) = 1000
    /\ \A s \in {"healthy", "idle", "unknown"} : refetchInterval(s) = 30000
    /\ \A s \in ResponseStatus \cup {None} :
          refetchInterval(s) \in {1000, 5000, 30000}
    /\ \A p \in Pollers :
          polling(p)
          => /\ timer[p] \in {1000, 5000, 30000}
             /\ data[p] = None => timer[p] = 1000
             /\ data[p] \in {"healthy", "idle", "unknown"} => timer[p] = 30000
             /\ timer[p] = refetchInterval(data[p])

C9_Witness ==
    \E p \in Ids :
        /\ polling(p) /\ data[p] = "unknown" /\ timer[p] = 30000
        /\ status[p] = "error" /\ rendered[p]

\* C10: when the first fetch of a mounted, enabled hook has failed, the
\* returned state carries the query's error (status error, the error message,
\* a loading error) while isHealthy, isDeploying and isStopped are false.
C10_FirstFetchFailure ==
    \A p \in Ids :
        (polling(p) /\ data[p] = None /\ fetchStatus[p] = "idle"
         /\ failureCount[p] > 0)
        => /\ status[p] = "error"
           /\ error[p] \in FailureKinds
           /\ isLoadingError(p)
           /\ ~isHealthy(p) /\ ~isDeploying(p) /\ ~isStopped(p)

C10_Witness ==
    /\ polling("abc") /\ rendered["abc"]
    /\ data["abc"] = None /\ fetchStatus["abc"] = "idle"
    /\ error["abc"] = "Network error"
    /\ isLoadingError("abc") /\ ~isError("abc")

\* ------------------------------------------------------------------------
\* The session: auth store, stored token, page
\* ------------------------------------------------------------------------

\* window.location.href is assigned or the page is reloaded: the document is
\* unloaded, the query cache and every mounted hook are gone.
unloadPage ==
    /\ mounted' = [p \in Pollers |-> FALSE]
    /\ enabled' = [p \in Pollers |-> FALSE]
    /\ onStatusChange' = [p \in Pollers |-> FALSE]
    /\ data' = [p \in Pollers |-> None]
    /\ status' = [p \in Pollers |-> "pending"]
    /\ fetchStatus' = [p \in Pollers |-> "idle"]
    /\ error' = [p \in Pollers |-> None]
    /\ failureReason' = [p \in Pollers |-> None]
    /\ failureCount' = [p \in Pollers |-> 0]
    /\ retrySleep' = [p \in Pollers |-> 0]
    /\ retryCancelled' = [p \in Pollers |-> FALSE]
    /\ timer' = [p \in Pollers |-> 0]
    /\ staleDeployment' = [p \in Pollers |-> FALSE]
    /\ staleDeployments' = FALSE
    /\ transition' = [p \in Pollers |-> "none"]
    /\ rendered' = [p \in Pollers |-> FALSE]
    /\ cbCount' = [p \in Pollers |-> 0]
    /\ lastCb' = [p \in Pollers |-> None]
    /\ cbPrev' = [p \in Pollers |-> None]
    /\ invIssued' = [p \in Pollers |-> FALSE]
    /\ called' = [p \in Pollers |-> FALSE]
    /\ everEnabled' = [p \in Pollers |-> FALSE]
    /\ inFlight' = [p \in Pollers |-> 0]
    /\ returned' = [p \in Pollers |-> None]
    /\ comparedWithNew' = [p \in Pollers |-> FALSE]
    /\ listData' = None
    /\ listStatus' = "pending"
    /\ listFetching' = FALSE
    /\ listError' = None
    /\ record' = [p \in Ids |-> None]
    /\ actionPending' = NoAction
    /\ showCreateForm' = FALSE
    /\ createPending' = FALSE

\* The dashboard is taken down: every card unmounts.
unmountAll ==
    /\ mounted' = [p \in Pollers |-> FALSE]
    /\ enabled' = [p \in Pollers |-> FALSE]
    /\ onStatusChange' = [p \in Pollers |-> FALSE]
    /\ timer' = [p \in Pollers |-> 0]
    /\ retryCancelled' = [p \in Pollers |->
                            IF mounted[p] THEN fetchStatus[p] # "idle"
                            ELSE retryCancelled[p]]
    /\ called' = [p \in Pollers |-> FALSE]
    /\ everEnabled' = [p \in Pollers |-> FALSE]
    /\ UNCHANGED <<data, status, fetchStatus, error, failureReason,
                   failureCount, retrySleep, inFlight, hookEffects,
                   fetchHistory>>

setUserOnly(u) == user' = u /\ UNCHANGED isAuthenticated

\* The store's setUser(user).
setUser(u) == user' = u /\ isAuthenticated' = (u # None)

catchLoginAsLogout ==
    /\ user' = None
    /\ token' = None
    /\ isAuthenticated' = FALSE
    /\ isLoading' = FALSE

\* The catch of login, register and googleLogin: set({ isLoading: false }),
\* then the error is thrown on.
catchLogin ==
    /\ isLoading' = FALSE
    /\ UNCHANGED <<user, token, isAuthenticated>>

logoutKeepingUser ==
    /\ lsToken' = None
    /\ token' = None
    /\ isAuthenticated' = FALSE
    /\ isLoading' = FALSE
    /\ UNCHANGED user

\* The store's logout().
logout ==
    /\ lsToken' = None
    /\ user' = None
    /\ token' = None
    /\ isAuthenticated' = FALSE
    /\ isLoading' = FALSE

\* The response interceptor's error handler, but for the token it removes:
\* the Error it throws and the redirect.
responseError(r) ==
    /\ lastError' = errorMessage(r)
    /\ lastResponse' = r
    /\ location' = IF tokenRejected(r) THEN "/login" ELSE location

\* A call goes through the API client: login from the sign-in page, refresh
\* from the store, getStatus from a card of the dashboard.
Send(k) ==
    /\ UNCHANGED dashVars
    /\ k \in {"login", "refresh", "getStatus"}
    /\ ~pending[k]
    /\ k = "login" => ~isAuthenticated /\ ~isLoading
    /\ k = "getStatus" => isAuthenticated /\ ~isLoading /\ listData # None
    /\ pending' = [pending EXCEPT ![k] = TRUE]
    /\ header' = requestInterceptor(lsToken)
    /\ sentSince' = TRUE
    /\ isLoading' = IF k = "login" THEN TRUE ELSE isLoading
    /\ lastOp' = None
    /\ UNCHANGED <<lsToken, user, token, isAuthenticated, location, lastError,
                   lastResponse, lastFailed, lastAuthEvent, issued, pollerVars,
                   listVars>>

\* The page is loaded again: the store comes back from 'auth-storage' with
\* isLoading true, and checkAuth asks for the user when a token is stored.
PageLoad ==
    /\ UNCHANGED <<profileVars, dashHistory>>
    /\ unloadPage
    /\ pending' = [k \in RequestKinds |-> k = "me" /\ lsToken # None]
    /\ header' = IF lsToken # None THEN requestInterceptor(lsToken) ELSE header
    /\ sentSince' = (sentSince \/ lsToken # None)
    /\ isLoading' = (lsToken # None)
    /\ lastOp' = IF lsToken = None THEN "checkAuth without token" ELSE None
    /\ UNCHANGED <<lsToken, user, token, isAuthenticated, location, lastError,
                   lastResponse, lastFailed, lastAuthEvent, issued>>

\* A call resolves; t is the token a login or refresh response carries.
Resolve(k, t) ==
    /\ UNCHANGED dashVars
    /\ k \in {"login", "refresh", "me", "getStatus"}
    /\ pending[k]
    /\ pending' = [pending EXCEPT ![k] = FALSE]
    /\ lastOp' = CASE k = "login" -> "login succeeded"
                  [] k = "refresh" -> "refreshToken succeeded"
                  [] k = "me" -> "checkAuth succeeded"
                  [] OTHER -> None
    /\ CASE k = "login" ->
              /\ lsToken' = t
              /\ user' = "u"
              /\ token' = t
              /\ isAuthenticated' = TRUE
              /\ isLoading' = FALSE
              /\ lastAuthEvent' = "login"
              /\ sentSince' = FALSE
              /\ issued' = t
         [] k = "refresh" ->
              /\ lsToken' = t
              /\ token' = t
              /\ lastAuthEvent' = "refresh"
              /\ sentSince' = FALSE
              /\ issued' = t
              /\ UNCHANGED <<user, isAuthenticated, isLoading>>
         [] k = "me" ->
              /\ setUser("u")
              /\ isLoading' = FALSE
              /\ UNCHANGED <<lsToken, token, lastAuthEvent, sentSince, issued>>
         [] k = "getStatus" ->
              UNCHANGED <<lsToken, storeVars, lastAuthEvent, sentSince, issued>>
    /\ UNCHANGED <<location, header, lastError, lastResponse, lastFailed,
                   pollerVars, listVars>>

\* A call fails with r: the response interceptor throws, the caller's catch
\* runs, and after a rejected token the page goes to /login.
Reject(k, r) ==
    /\ UNCHANGED <<profileVars, dashHistory>>
    /\ k \in {"login", "refresh", "me", "getStatus"}
    /\ pending[k]
    /\ responseError(r)
    /\ lastFailed' = k
    /\ lastOp' = CASE k = "login" -> "login failed"
                  [] k = "refresh" -> "refreshToken failed"
                  [] k = "me" -> "checkAuth failed"
                  [] OTHER -> None
    /\ CASE k = "login" ->
              /\ lsToken' = IF tokenRejected(r) THEN None ELSE lsToken
              /\ catchLogin
         [] k = "refresh" -> logout
         [] k = "me" ->
              /\ lsToken' = None
              /\ setUser(None)
              /\ isLoading' = FALSE
              /\ UNCHANGED token
         [] k = "getStatus" ->
              /\ lsToken' = IF tokenRejected(r) THEN None ELSE lsToken
              /\ isLoading' = IF tokenRejected(r) THEN FALSE ELSE isLoading
              /\ UNCHANGED <<user, token, isAuthenticated>>
    /\ lastAuthEvent' = IF tokenRejected(r) THEN "token rejected"
                        ELSE IF k = "refresh" THEN "logout"
                        ELSE IF k = "me" THEN "checkAuth failed"
                        ELSE lastAuthEvent
    /\ sentSince' = (sentSince /\ ~tokenRejected(r) /\ k \notin {"refresh", "me"})
    /\ IF tokenRejected(r)
       THEN /\ pending' = [j \in RequestKinds |-> FALSE]
            /\ unloadPage
       ELSE /\ pending' = [pending EXCEPT ![k] = FALSE]
            /\ IF k \in {"refresh", "me"} THEN unmountAll
               ELSE UNCHANGED pollerVars
            /\ UNCHANGED <<listVars, pageVars>>
    /\ UNCHANGED <<header, issued>>

\* handleLogout: the store's logout(); the sign-in page replaces the
\* dashboard.
Logout ==
    /\ UNCHANGED dashVars
    /\ isAuthenticated /\ ~isLoading
    /\ logout
    /\ lastAuthEvent' = "logout"
    /\ lastOp' = "logout"
    /\ sentSince' = FALSE
    /\ unmountAll
    /\ UNCHANGED <<location, pending, header, lastError, lastResponse,
                   lastFailed, issued, listVars>>

\* ------------------------------------------------------------------------
\* The list query ['deployments']
\* ------------------------------------------------------------------------

\* AgentList mounts, or its refetch button is pressed: deploymentsApi.list.
ListFetch ==
    /\ UNCHANGED dashVars
    /\ isAuthenticated /\ ~isLoading
    /\ ~listFetching
    /\ listFetching' = TRUE
    /\ listStatus' = IF listData = None THEN "pending" ELSE listStatus
    /\ listError' = IF listData = None THEN None ELSE listError
    /\ header' = requestInterceptor(lsToken)
    /\ sentSince' = TRUE
    /\ lastOp' = None
    /\ UNCHANGED <<listData, lsToken, storeVars, location, pending, lastError,
                   lastResponse, lastFailed, lastAuthEvent, issued, pollerVars>>

\* deploymentsApi.list resolves.
ListSuccess ==
    /\ UNCHANGED dashVars
    /\ listFetching
    /\ listData' = "deployments"
    /\ listStatus' = "success"
    /\ listError' = None
    /\ listFetching' = FALSE
    /\ staleDeployments' = FALSE
    /\ lastOp' = None
    /\ UNCHANGED <<lsToken, storeVars, location, pending, header, sentSince,
                   lastError, lastResponse, lastFailed, lastAuthEvent, issued>>
    /\ UNCHANGED <<mounted, enabled, onStatusChange, queryVars, timer,
                   staleDeployment, cbCount, lastCb, cbPrev, invIssued,
                   fetchHistory, called, everEnabled>>

\* The list fetch fails for good with r (the last attempt of
\* deploymentsApi.list was rejected), or its token is rejected and the page
\* goes to /login.
ListFail(r) ==
    /\ UNCHANGED <<profileVars, dashHistory>>
    /\ listFetching
    /\ responseError(r)
    /\ lastFailed' = "list"
    /\ lastOp' = None
    /\ IF tokenRejected(r)
       THEN /\ lsToken' = None
            /\ isLoading' = FALSE
            /\ lastAuthEvent' = "token rejected"
            /\ sentSince' = FALSE
            /\ pending' = [j \in RequestKinds |-> FALSE]
            /\ unloadPage
       ELSE /\ listStatus' = "error"
            /\ listError' = errorMessage(r)
            /\ listFetching' = FALSE
            /\ UNCHANGED <<listData, lsToken, isLoading, lastAuthEvent,
                           sentSince, pending, pollerVars, pageVars>>
    /\ UNCHANGED <<user, token, isAuthenticated, header, issued>>

\* ------------------------------------------------------------------------
\* Two cards side by side with the list
\* ------------------------------------------------------------------------

\* getStatus of p is answered with a rejected token: the interceptor removes
\* the stored token and sends the page to /login.
FetchRejected(p, r) ==
    /\ UNCHANGED <<profileVars, dashHistory>>
    /\ fetchStatus[p] = "fetching"
    /\ tokenRejected(r)
    /\ responseError(r)
    /\ lastFailed' = p
    /\ lastOp' = None
    /\ lsToken' = None
    /\ isLoading' = FALSE
    /\ lastAuthEvent' = "token rejected"
    /\ sentSince' = FALSE
    /\ pending' = [j \in RequestKinds |-> FALSE]
    /\ unloadPage
    /\ UNCHANGED <<user, token, isAuthenticated, header, issued>>

PairStatuses == {"provisioning", "healthy"}

PairFailures ==
    {r \in Failures : r.code = "TOKEN_EXPIRED" \/ r.message = ""}

PairNext ==
    \/ \E p \in Ids : Mount(p, TRUE, FALSE, TRUE)
    \/ \E p \in Ids : Unmount(p)
    \/ \E p \in Ids : Tick(p)
    \/ \E p \in Ids : GarbageCollect(p)
    \/ \E p \in Ids, s \in PairStatuses : FetchSuccess(p, s)
    \/ \E p \in Ids : FetchFail(p, "Network error")
    \/ \E p \in Ids : RetryFire(p)
    \/ \E p \in Ids, r \in PairFailures : FetchRejected(p, r)
    \/ ListFetch
    \/ ListSuccess
    \/ \E r \in PairFailures : ListFail(r)

PairSpec == Init /\ [][PairNext]_vars

AuthNext ==
    \/ \E k \in RequestKinds : Send(k)
    \/ PageLoad
    \/ \E k \in RequestKinds, t \in Tokens : Resolve(k, t)
    \/ \E k \in RequestKinds, r \in Failures : Reject(k, r)
    \/ Logout
    \/ ListFetch
    \/ ListSuccess

AuthSpec == Init /\ [][AuthNext]_vars

\* ------------------------------------------------------------------------
\* C11..C20
\* ------------------------------------------------------------------------

\* A getStatus request for p leaves in this step.
requestStarts(p) == inFlight'[p] > inFlight[p]

\* A fetch of p starts in this step (not a retry of a running one).
fetchStarts(p) == fetchStatus[p] = "idle" /\ fetchStatus'[p] # "idle"

C12_OneInFlight ==
    [][\A p \in Pollers :
          /\ inFlight'[p] <= 1
          /\ inFlight'[p] = 1 <=> fetchStatus'[p] = "fetching"
          /\ requestStarts(p) => inFlight[p] = 0]_vars

\* A retry request is out while the poll timer is armed over a cached
\* snapshot: a tick that comes now joins the running fetch.
C12_Witness ==
    /\ inFlight["abc"] = 1
    /\ timer["abc"] > 0
    /\ data["abc"] # None
    /\ failureCount["abc"] = 1

\* C13 as stated: after a fetch changed the status, the render that compares
\* does not take the snapshot just written as the previous one.
C13_PreviousReadBeforeWrite ==
    \A p \in Pollers :
        rendered[p] /\ transition[p] = "changed" => ~comparedWithNew[p]

\* C18: the cache holds one snapshot per deployment id, the one the last
\* successful getStatus returned (none before the first success and after
\* the entry was collected); a success replaces it, nothing else changes it.
C18_LatestSnapshotOnly ==
    \A p \in Pollers :
        /\ data[p] = returned[p]
        /\ transition[p] # "none" => data[p] # None
        /\ status[p] = "success" => data[p] # None

\* A second successful fetch returned another status and replaced the
\* snapshot.
C18_Witness ==
    /\ transition["abc"] = "changed"
    /\ returned["abc"] = "healthy"
    /\ data["abc"] = "healthy"

C14_RejectedTokenClearsSession ==
    lastAuthEvent = "token rejected" =>
        /\ lsToken = None
        /\ user = None /\ token = None /\ ~isAuthenticated
        /\ location = "/login"
        /\ lastError # None /\ tokenRejected(lastResponse)

\* C15: a request carries 'Bearer t' for the token t stored when it is sent
\* and no Authorization header when none is stored: none after logout, after
\* a rejected token or a failed checkAuth, the new token after a login or a
\* refresh.
C15_BearerFromStoredToken ==
    /\ requestInterceptor(None) = NoHeader
    /\ \A t \in Tokens : requestInterceptor(t) = "Bearer " \o t
    /\ sentSince =>
          /\ header = IF lsToken = None THEN NoHeader ELSE "Bearer " \o lsToken
          /\ lastAuthEvent \in {"logout", "token rejected", "checkAuth failed"}
                => header = NoHeader
          /\ lastAuthEvent \in {"login", "refresh"}
                => header = "Bearer " \o issued

\* After a getStatus response with a rejected token the dashboard is still
\* shown and has sent a request: it carried no Authorization header.
C15_Witness ==
    /\ sentSince /\ header = NoHeader
    /\ lastAuthEvent = "token rejected"
    /\ isAuthenticated

\* C20: a failed call throws an Error whose message is the server's
\* error.message when the response has an error body, else the transport
\* error's message, else 'Network error'; a failure never has the effects of
\* a success (no token is stored, nobody becomes signed in).
C20_FailureMessage ==
    [][/\ lastResponse' # NoResponse =>
             lastError' = IF lastResponse'.code # None
                          THEN lastResponse'.serverMessage
                          ELSE IF lastResponse'.message = ""
                               THEN "Network error"
                               ELSE lastResponse'.message
       /\ lastResponse' # lastResponse =>
             /\ issued' = issued
             /\ lsToken' \in {lsToken, None}
             /\ isAuthenticated' => isAuthenticated]_vars

\* A request failed without a response and without a transport message.
C20_Witness ==
    /\ lastResponse = [code |-> None, serverMessage |-> None, message |-> ""]
    /\ lastError = "Network error"

\* The getStatus request of p is answered in this step.
requestEnds(p) == inFlight[p] = 1 /\ inFlight'[p] = 0

\* The request of p failed and its query handled the failure: a retry is
\* scheduled or the fetch is reported as failed.
failedLocally(p) ==
    /\ requestEnds(p)
    /\ fetchStatus'[p] = "retrying" \/ (fetchStatus'[p] = "idle" /\ status'[p] = "error")

\* The request of p was answered with a rejected token.
tokenFailed(p) ==
    /\ requestEnds(p)
    /\ lastFailed' = p
    /\ fetchStatus'[p] = "idle" /\ status'[p] = "pending"

\* Nothing of b's poller changes in this step: snapshot, query state (the
\* flags derive from both), poll timer, invalidations.
pollerUntouched(b) ==
    /\ data'[b] = data[b]
    /\ status'[b] = status[b]
    /\ error'[b] = error[b]
    /\ fetchStatus'[b] = fetchStatus[b]
    /\ failureCount'[b] = failureCount[b]
    /\ retrySleep'[b] = retrySleep[b]
    /\ timer'[b] = timer[b]
    /\ mounted'[b] = mounted[b]
    /\ staleDeployment'[b] = staleDeployment[b]

\* C16 as stated: a failed status fetch for A changes nothing of B's poller
\* and nothing of the list query.
C16_FailureIsLocal ==
    [][\A a \in Ids : \A b \in Ids \ {a} :
          failedLocally(a) \/ tokenFailed(a)
          => pollerUntouched(b) /\ UNCHANGED listVars]_vars

\* C16 amended: a failed status fetch for A that the query handles changes
\* nothing of B's poller, of the list query or of the session; one answered
\* with a rejected token removes the stored token and unloads the page for
\* /login, which ends B's poller and empties the cache, list included.
C16_LocalUnlessTokenRejected ==
    [][\A a \in Ids : \A b \in Ids \ {a} :
          /\ failedLocally(a)
             => /\ pollerUntouched(b)
                /\ UNCHANGED listVars
                /\ UNCHANGED <<lsToken, location>>
          /\ tokenFailed(a)
             => /\ tokenRejected(lastResponse')
                /\ lsToken' = None /\ location' = "/login"
                /\ ~mounted'[b] /\ data'[b] = None /\ timer'[b] = 0
                /\ listData' = None]_vars

\* The fetch for abc has failed for good while xyz holds a healthy snapshot
\* and its 30000 ms timer.
C16_Witness ==
    /\ status["abc"] = "error" /\ failureCount["abc"] = retry + 1
    /\ data["xyz"] = "healthy" /\ status["xyz"] = "success"
    /\ timer["xyz"] = POLLING_INTERVAL_HEALTHY
    /\ listData # None

\* C17: a snapshot entry changes only when its own id's getStatus resolves,
\* and is dropped only by the cache once no hook is mounted for it; an
\* entry ['deployment', id] is invalidated only by a render of that id's
\* hook, ['deployments'] only by a render of some hook.  Nothing is written
\* under another deployment's id.
C17_OwnKeysOnly ==
    [][/\ \A q \in Pollers :
             /\ data'[q] # data[q]
                => \/ requestEnds(q) /\ data'[q] # None /\ data'[q] = returned'[q]
                   \/ data'[q] = None /\ ~mounted[q] /\ fetchStatus[q] = "idle"
             /\ staleDeployment'[q] # staleDeployment[q]
                => mounted[q] /\ rendered'[q]
             /\ (status'[q] # status[q] \/ error'[q] # error[q])
                => requestEnds(q) \/ fetchStarts(q) \/ fetchStatus[q] = "retrying"
                   \/ ~mounted[q]
       /\ staleDeployments' # staleDeployments
             => \E q \in Ids : mounted[q] /\ rendered'[q] /\ invIssued'[q]]_vars

\* The hook of abc has replaced its snapshot and rendered; the other
\* deployment's entry is as it was.
C17_Witness ==
    /\ mounted["abc"] /\ rendered["abc"]
    /\ transition["abc"] = "changed" /\ data["abc"] = "healthy"
    /\ data["xyz"] = None /\ status["xyz"] = "pending"
    /\ ~staleDeployment["xyz"]

\* ------------------------------------------------------------------------
\* C21..C29
\* ------------------------------------------------------------------------

\* The flags of the hook that are true.
trueFlags(p) ==
    {f \in {"isDeploying", "isHealthy", "isError", "isStopped"} :
        \/ f = "isDeploying" /\ isDeploying(p)
        \/ f = "isHealthy" /\ isHealthy(p)
        \/ f = "isError" /\ isError(p)
        \/ f = "isStopped" /\ isStopped(p)}

\* C29: at most one of isDeploying, isHealthy, isError, isStopped is true;
\* none is true exactly without a snapshot or with status idle or an
\* unrecognised one; which one is true follows from the snapshot's status
\* alone, whatever the state of the fetch.
C29_FlagsExclusive ==
    \A p \in Pollers :
        /\ Cardinality(trueFlags(p)) <= 1
        /\ trueFlags(p) = {} <=> data[p] \in {None, "idle", "unknown"}
        /\ trueFlags(p) =
              IF data[p] \in ActiveStatuses THEN {"isDeploying"}
              ELSE IF data[p] = "healthy" THEN {"isHealthy"}
              ELSE IF data[p] = "error" THEN {"isError"}
              ELSE IF data[p] = "stopped" THEN {"isStopped"}
              ELSE {}

\* The last fetch has failed over a healthy snapshot while a new one runs:
\* isHealthy is the only flag.
C29_Witness ==
    /\ status["abc"] = "error" /\ fetchStatus["abc"] = "fetching"
    /\ data["abc"] = "healthy"
    /\ trueFlags("abc") = {"isHealthy"}

\* C22 as stated: whenever the startup check has finished and the store says
\* isAuthenticated, a token is stored in local storage.
C22_AuthenticatedHasToken ==
    (~isLoading /\ isAuthenticated) => lsToken # None

\* C23 as stated: a successful login (register, googleLogin) stores the
\* returned token and leaves the store signed in and not loading; a failed
\* one throws, ends with isLoading false, and leaves user, token,
\* isAuthenticated and the stored token as they were.
C23_LoginAllOrNothing ==
    [][/\ lastOp' = "login succeeded"
          => /\ lsToken' = issued' /\ token' = issued'
             /\ user' = "u" /\ isAuthenticated' /\ ~isLoading'
       /\ lastOp' = "login failed"
          => /\ lastFailed' = "login" /\ lastError' # None
             /\ ~isLoading'
             /\ UNCHANGED <<user, token, isAuthenticated, lsToken>>]_vars

\* C23 amended: as stated, but a failure whose response carries
\* TOKEN_EXPIRED or INVALID_TOKEN also removes the stored token and sends
\* the page to /login; the store is untouched by it.
C23_LoginFailureKeepsStore ==
    [][/\ lastOp' = "login succeeded"
          => /\ lsToken' = issued' /\ token' = issued'
             /\ user' = "u" /\ isAuthenticated' /\ ~isLoading'
       /\ lastOp' = "login failed"
          => /\ lastFailed' = "login" /\ lastError' # None
             /\ ~isLoading'
             /\ UNCHANGED <<user, token, isAuthenticated>>
             /\ IF tokenRejected(lastResponse')
                THEN lsToken' = None /\ location' = "/login"
                ELSE UNCHANGED <<lsToken, location>>]_vars

\* A login has failed with a rejected token while a token was stored.
C23_Witness ==
    /\ lastOp = "login failed"
    /\ tokenRejected(lastResponse)
    /\ lsToken = None /\ token # None /\ ~isAuthenticated

\* The session is fully logged out.
loggedOut ==
    /\ lsToken = None
    /\ user = None /\ token = None
    /\ ~isAuthenticated /\ ~isLoading

\* C24: a successful refreshToken puts the new token in local storage and
\* in the store and leaves user and isAuthenticated alone; a failed one
\* throws and leaves the session fully logged out; logout leaves it fully
\* logged out, and a logout of a logged-out session changes nothing.
C24_RefreshAndLogout ==
    [][/\ lastOp' = "refreshToken succeeded"
          => /\ lsToken' = issued' /\ token' = issued'
             /\ UNCHANGED <<user, isAuthenticated>>
       /\ lastOp' = "refreshToken failed"
          => loggedOut' /\ lastFailed' = "refresh" /\ lastError' # None
       /\ lastOp' = "logout" => loggedOut'
       /\ (loggedOut /\ lastOp' \in {"logout", "refreshToken failed"})
          => UNCHANGED <<lsToken, user, token, isAuthenticated, isLoading>>]_vars

\* refreshToken has failed in a session that was already logged out: its
\* logout() was the second one.
C24_Witness ==
    /\ lastOp = "refreshToken failed"
    /\ lastAuthEvent = "logout"
    /\ loggedOut
    /\ lastError = "Network error"

\* C25: the startup check ends with isLoading false.  Without a stored
\* token it sends no request and leaves user and isAuthenticated as
\* rehydrated; with one, a successful /auth/me sets the user and
\* isAuthenticated, a failed one removes the stored token and resets user
\* and isAuthenticated.
C25_StartupCheck ==
    [][/\ lastOp' \in {"checkAuth without token", "checkAuth succeeded",
                       "checkAuth failed"} => ~isLoading'
       /\ lastOp' = "checkAuth without token"
          => /\ \A k \in RequestKinds : ~pending'[k]
             /\ UNCHANGED <<user, isAuthenticated, header>>
       /\ lastOp' = "checkAuth succeeded"
          => user' = "u" /\ isAuthenticated' /\ UNCHANGED lsToken
       /\ lastOp' = "checkAuth failed"
          => lsToken' = None /\ user' = None /\ ~isAuthenticated'
       /\ (pending'["me"] /\ ~pending["me"]) => isLoading' /\ lsToken # None]_vars

\* The startup check of a persisted session has failed: the user is reset
\* while the store still holds the old token.
C25_Witness ==
    /\ lastOp = "checkAuth failed"
    /\ lsToken = None /\ user = None /\ ~isAuthenticated /\ ~isLoading
    /\ token # None

\* ------------------------------------------------------------------------
\* The cards of the list and their actions
\* ------------------------------------------------------------------------

\* The deployments with a card in CardSpec.
Cards == {"abc"}

\* The statuses the backend reports in CardSpec: one that is being deployed,
\* and the three the card's buttons and its enabled option depend on.
CardStatuses == {"provisioning", "healthy", "stopped", "error"}

cardEnabledUnlessStopped(st) == st # "stopped"

\* The enabled option the card passes to the hook:
\* deployment.status !== 'stopped' && deployment.status !== 'error'.
cardEnabled(st) == st \notin {"stopped", "error"}

\* a || b: b when a is undefined or the empty string.
orElse(a, b) == IF a = None \/ a = "" THEN b ELSE a

currentStatusRecordFirst(d, st) == orElse(st, d)

\* currentStatus = statusData?.status || deployment.status
currentStatus(d, st) == orElse(d, st)

\* The buttons the card renders.
startOffered(p) ==
    currentStatus(queryData(p), record[p]) \in {"stopped", "error"}

stopOffered(p) == isHealthy(p)

restartOffered(p) == isHealthy(p)

openAgentRendered(p) == isHealthy(p)

\* Open Agent can be pressed: rendered, and not disabled by the record.
openAgentEnabled(p) == openAgentRendered(p) /\ ~(record[p] # "healthy")

\* The button that sends action a is on p's card; Delete is always there.
actionOffered(p, a) ==
    CASE a = "start" -> startOffered(p)
      [] a = "stop" -> stopOffered(p)
      [] a = "restart" -> restartOffered(p)
      [] OTHER -> TRUE

\* AgentList renders the list: p's card is there when the list has a record
\* for p (status st), and mounts the hook with the enabled option that
\* follows from st.  A hook that is mounted or switched on fetches when it
\* has no data or stale data; a card that goes away unmounts its hook.
renderCard(p, st, stale) ==
    LET en == st # None /\ cardEnabled(st)
        fetches == /\ st # None
                   /\ queryEnabled(p, en)
                   /\ ~(mounted[p] /\ enabled[p])
                   /\ (data[p] = None \/ stale)
    IN  /\ mounted' = [mounted EXCEPT ![p] = st # None]
        /\ enabled' = [enabled EXCEPT ![p] = en]
        /\ onStatusChange' = [onStatusChange EXCEPT ![p] = FALSE]
        /\ everEnabled' = [everEnabled EXCEPT
                             ![p] = /\ st # None
                                    /\ \/ mounted[p] /\ @
                                       \/ optionsEnabled(p, en)]
        /\ timer' = [timer EXCEPT ![p] = armedTimer(p, st # None, en, data[p])]
        /\ IF fetches THEN executeFetch(p, TRUE)
           ELSE IF mounted[p] /\ st = None
           THEN /\ retryCancelled' = [retryCancelled EXCEPT
                                        ![p] = fetchStatus[p] # "idle"]
                /\ UNCHANGED <<data, status, fetchStatus, error, failureReason,
                               failureCount, retrySleep, inFlight>>
           ELSE UNCHANGED queryVars
        /\ called' = [called EXCEPT
                        ![p] = /\ st # None
                               /\ \/ mounted[p] /\ @
                                  \/ /\ fetches
                                     /\ fetchStatus[p] = "idle"
                                     /\ calledWhileOff(p, TRUE, everEnabled'[p])]

\* deploymentsApi.list resolves; st is the status of abc's record in the new
\* list, None when the list has no such record.  The cards are rendered from
\* the new list.
CardListSuccess(st, stale) ==
    /\ listFetching
    /\ isAuthenticated /\ ~isLoading
    /\ listData' = "deployments"
    /\ listStatus' = "success"
    /\ listError' = None
    /\ listFetching' = FALSE
    /\ staleDeployments' = FALSE
    /\ record' = [record EXCEPT !["abc"] = st]
    /\ renderCard("abc", st, stale)
    /\ UNCHANGED <<staleDeployment, cbCount, lastCb, cbPrev, invIssued,
                   fetchHistory, authVars, actionPending, showCreateForm,
                   createPending, profileVars, dashHistory>>

\* A button of p's card is pressed: handleAction, actionMutation.mutate,
\* deploymentsApi.action(id, action).  One action request is followed at a
\* time.
ActionSend(p, a) ==
    /\ mounted[p]
    /\ record[p] # None
    /\ actionPending = NoAction
    /\ actionOffered(p, a)
    /\ actionPending' = [id |-> p, action |-> a]
    /\ header' = requestInterceptor(lsToken)
    /\ sentSince' = TRUE
    /\ lastOp' = None
    /\ UNCHANGED <<lsToken, storeVars, location, pending, lastError,
                   lastResponse, lastFailed, lastAuthEvent, issued, pollerVars,
                   listVars, record, showCreateForm, createPending,
                   profileVars, dashHistory>>

actionInvalidatesAlways(ok) == TRUE

\* actionMutation invalidates ['deployments'] in onSuccess, not in onError.
actionInvalidates(ok) == ok

\* invalidateQueries({ queryKey: ['deployments'] }) when on: the list is
\* marked stale and, being mounted, fetched again.
invalidateDeployments(on) ==
    /\ staleDeployments' = (staleDeployments \/ on)
    /\ listFetching' = (listFetching \/ on)
    /\ header' = IF on THEN requestInterceptor(lsToken) ELSE header
    /\ sentSince' = (sentSince \/ on)
    /\ UNCHANGED <<listData, listStatus, listError>>

\* deploymentsApi.action resolves: onSuccess.
ActionSuccess ==
    /\ actionPending # NoAction
    /\ actionPending' = NoAction
    /\ actionResult' = "succeeded"
    /\ invalidateDeployments(actionInvalidates(TRUE))
    /\ lastOp' = None
    /\ UNCHANGED <<lsToken, storeVars, location, pending, lastError,
                   lastResponse, lastFailed, lastAuthEvent, issued>>
    /\ UNCHANGED <<mounted, enabled, onStatusChange, queryVars, timer,
                   staleDeployment, cbCount, lastCb, cbPrev, invIssued,
                   fetchHistory, called, everEnabled>>
    /\ UNCHANGED <<record, showCreateForm, createPending, profileVars,
                   lastCreate>>

\* deploymentsApi.action is rejected with r: the response interceptor throws
\* (and after a rejected token sends the page to /login), then onError.
ActionFail(r) ==
    /\ actionPending # NoAction
    /\ responseError(r)
    /\ lastFailed' = "action"
    /\ lastOp' = None
    /\ actionResult' = "failed"
    /\ IF tokenRejected(r)
       THEN /\ lsToken' = None
            /\ isLoading' = FALSE
            /\ lastAuthEvent' = "token rejected"
            /\ sentSince' = FALSE
            /\ pending' = [j \in RequestKinds |-> FALSE]
            /\ unloadPage
            /\ UNCHANGED header
       ELSE /\ actionPending' = NoAction
            /\ invalidateDeployments(actionInvalidates(FALSE))
            /\ UNCHANGED <<lsToken, isLoading, lastAuthEvent, pending>>
            /\ UNCHANGED <<mounted, enabled, onStatusChange, queryVars, timer,
                           staleDeployment, cbCount, lastCb, cbPrev, invIssued,
                           fetchHistory, called, everEnabled>>
            /\ UNCHANGED <<record, showCreateForm, createPending>>
    /\ UNCHANGED <<user, token, isAuthenticated, issued, profileVars,
                   lastCreate>>

CardNext ==
    \/ ListFetch
    \/ \E st \in CardStatuses \cup {None}, stale \in BOOLEAN :
          CardListSuccess(st, stale)
    \/ \E p \in Cards : Tick(p)
    \/ \E p \in Cards : GarbageCollect(p)
    \/ \E p \in Cards, s \in CardStatuses : FetchSuccess(p, s)
    \/ \E p \in Cards : FetchFail(p, "Network error")
    \/ \E p \in Cards : RetryFire(p)
    \/ \E p \in Cards, a \in ActionKinds : ActionSend(p, a)
    \/ ActionSuccess
    \/ \E r \in PairFailures : ActionFail(r)

CardSpec == Init /\ [][CardNext]_vars

\* ------------------------------------------------------------------------
\* Properties of the cards
\* ------------------------------------------------------------------------

\* The request of a deployment action is answered in this step.
actionSettles == actionPending # NoAction /\ actionPending' = NoAction

\* The answer was a rejected token: the page goes to /login and the query
\* cache goes with it.
actionUnloads == actionResult' = "failed" /\ tokenRejected(lastResponse')

\* C26 as stated: a deployment action invalidates ['deployments'] exactly
\* when its request succeeds, and the step in which the request is answered
\* leaves every cached snapshot and every stale mark of a deployment as it
\* was.
C26_SnapshotOnlyByPoller ==
    [][actionSettles =>
        /\ actionResult' = "succeeded" => staleDeployments' /\ listFetching'
        /\ actionResult' = "failed" => UNCHANGED <<staleDeployments, listVars>>
        /\ UNCHANGED <<data, staleDeployment>>]_vars

\* C26: a deployment action invalidates ['deployments'] when its request
\* succeeds (the list is marked stale and fetched again) and not when it
\* fails; whether it succeeds or fails it writes no snapshot and marks no
\* entry of a deployment stale, and it leaves every poller's query, timer and
\* snapshot exactly as they were unless the request was rejected with
\* TOKEN_EXPIRED or INVALID_TOKEN: then the page goes to /login and the
\* whole cache, snapshots included, is gone.
C26_ActionInvalidation ==
    [][actionSettles =>
        /\ actionResult' = "succeeded" => staleDeployments' /\ listFetching'
        /\ actionResult' = "failed" =>
              /\ staleDeployments' => staleDeployments
              /\ listFetching' => listFetching
        /\ \A p \in Pollers :
              /\ data'[p] \in {data[p], None}
              /\ staleDeployment'[p] => staleDeployment[p]
        /\ ~actionUnloads =>
              UNCHANGED <<data, status, fetchStatus, error, failureCount,
                          timer, staleDeployment, returned, transition,
                          mounted, enabled>>]_vars

\* A stop action of a healthy deployment has succeeded: the list is stale and
\* being fetched, the snapshot is the one the poller fetched.
C26_Witness ==
    /\ actionResult = "succeeded"
    /\ actionPending = NoAction
    /\ staleDeployments /\ listFetching
    /\ mounted["abc"] /\ record["abc"] = "healthy" /\ data["abc"] = "healthy"

\* C27: a mounted card polls (its hook is enabled and its refetch timer is
\* armed) if and only if the status of its list record is neither stopped nor
\* error, a fetch starts only for such a card, and the status the card shows
\* is the cached snapshot's whenever one is cached, and the record's only when
\* none is.
C27_CardPolling ==
    [][\A p \in Cards :
          /\ mounted'[p] =>
                /\ polling(p)' <=> record'[p] \notin {"stopped", "error"}
                /\ timer'[p] > 0 <=> record'[p] \notin {"stopped", "error"}
                /\ currentStatus(queryData(p), record[p])'
                     = IF data'[p] # None THEN data'[p] ELSE record'[p]
          /\ fetchStarts(p) =>
                mounted'[p] /\ record'[p] \notin {"stopped", "error"}]_vars

\* The record says stopped, so the card does not poll, and the card still
\* shows the healthy snapshot that is cached.
C27_Witness ==
    /\ mounted["abc"]
    /\ record["abc"] = "stopped"
    /\ data["abc"] = "healthy"
    /\ timer["abc"] = 0 /\ ~polling("abc")
    /\ currentStatus(queryData("abc"), record["abc"]) = "healthy"

\* C28: whatever the record and the snapshot are, a card never offers Start
\* together with Stop or Restart: Start is offered exactly when the status
\* shown is stopped or error, Stop and Restart exactly when the snapshot is
\* healthy, and Open Agent can be pressed only when the snapshot and the
\* record are both healthy.
C28_Buttons ==
    \A p \in Cards : mounted[p] =>
        LET shown == IF data[p] # None THEN data[p] ELSE record[p]
        IN  /\ ~(startOffered(p) /\ (stopOffered(p) \/ restartOffered(p)))
            /\ startOffered(p) <=> shown \in {"stopped", "error"}
            /\ stopOffered(p) <=> data[p] = "healthy"
            /\ restartOffered(p) <=> data[p] = "healthy"
            /\ openAgentEnabled(p) =>
                  data[p] = "healthy" /\ record[p] = "healthy"

\* Record stopped, snapshot healthy: Stop was offered and pressed, Start is
\* not offered, Open Agent is rendered and disabled.
C28_Witness ==
    /\ mounted["abc"]
    /\ record["abc"] = "stopped"
    /\ data["abc"] = "healthy"
    /\ actionPending = [id |-> "abc", action |-> "stop"]
    /\ ~startOffered("abc") /\ openAgentRendered("abc")
    /\ ~openAgentEnabled("abc")

\* ------------------------------------------------------------------------
\* The create form and the subscription
\* ------------------------------------------------------------------------

\* The SubscriptionStatus and UserTier unions of the types module.
SubscriptionStatus == {"inactive", "active", "expired", "canceled"}

UserTier == {"starter", None}

\* user?.subscriptionStatus === 'active' && user?.tier === 'starter'
hasActiveSub ==
    user # None /\ subscriptionStatus = "active" /\ tier = "starter"

\* App renders the dashboard: not loading, authenticated.
dashboardShown == isAuthenticated /\ ~isLoading

formSubmittableAlways(has) == TRUE

\* CreateForm returns the locked card, not the form, if (!hasActiveSub).
formSubmittable(has) == has

\* What is rendered in the place of the create form.
createFormView ==
    IF ~(dashboardShown /\ showCreateForm) THEN "closed"
    ELSE IF formSubmittable(hasActiveSub) THEN "form"
    ELSE "locked"

\* The New Agent button is pressed: without the subscription a toast and
\* nothing else, with it the form is opened or closed.
ClickNewAgent ==
    /\ dashboardShown
    /\ showCreateForm' = IF hasActiveSub THEN ~showCreateForm ELSE showCreateForm
    /\ UNCHANGED <<authVars, listVars, pollerVars, record, actionPending,
                   createPending, profileVars, dashHistory>>

\* The X button next to the form.
CloseForm ==
    /\ dashboardShown
    /\ showCreateForm
    /\ showCreateForm' = FALSE
    /\ UNCHANGED <<authVars, listVars, pollerVars, record, actionPending,
                   createPending, profileVars, dashHistory>>

\* The form is submitted: handleSubmit, createMutation.mutate,
\* deploymentsApi.create.  The submit button is disabled while a create
\* request is out.
Submit ==
    /\ createFormView = "form"
    /\ ~createPending
    /\ createPending' = TRUE
    /\ lastCreate' = IF hasActiveSub THEN "with subscription"
                     ELSE "without subscription"
    /\ header' = requestInterceptor(lsToken)
    /\ sentSince' = TRUE
    /\ lastOp' = None
    /\ UNCHANGED <<lsToken, storeVars, location, pending, lastError,
                   lastResponse, lastFailed, lastAuthEvent, issued, pollerVars,
                   listVars, record, actionPending, showCreateForm,
                   profileVars, actionResult>>

\* deploymentsApi.create resolves: ['deployments'] is invalidated and the
\* form is closed.
CreateSuccess ==
    /\ createPending
    /\ createPending' = FALSE
    /\ invalidateDeployments(TRUE)
    /\ showCreateForm' = FALSE
    /\ lastOp' = None
    /\ UNCHANGED <<lsToken, storeVars, location, pending, lastError,
                   lastResponse, lastFailed, lastAuthEvent, issued>>
    /\ UNCHANGED <<mounted, enabled, onStatusChange, queryVars, timer,
                   staleDeployment, cbCount, lastCb, cbPrev, invIssued,
                   fetchHistory, called, everEnabled>>
    /\ UNCHANGED <<record, actionPending, profileVars, dashHistory>>

\* deploymentsApi.create is rejected with r: a toast, the form stays; after
\* a rejected token the page goes to /login.
CreateFail(r) ==
    /\ createPending
    /\ responseError(r)
    /\ lastFailed' = "create"
    /\ lastOp' = None
    /\ IF tokenRejected(r)
       THEN /\ lsToken' = None
            /\ isLoading' = FALSE
            /\ lastAuthEvent' = "token rejected"
            /\ sentSince' = FALSE
            /\ pending' = [j \in RequestKinds |-> FALSE]
            /\ unloadPage
       ELSE /\ createPending' = FALSE
            /\ UNCHANGED <<lsToken, isLoading, lastAuthEvent, sentSince,
                           pending, pollerVars, listVars, record,
                           actionPending, showCreateForm>>
    /\ UNCHANGED <<user, token, isAuthenticated, header, issued, profileVars,
                   dashHistory>>

\* The pricing section after a verified payment: setUser(await authApi.me()),
\* the user comes back with the subscription fields the backend has.
RefreshUser(ss, ti) ==
    /\ dashboardShown
    /\ setUser("u")
    /\ subscriptionStatus' = ss
    /\ tier' = ti
    /\ header' = requestInterceptor(lsToken)
    /\ sentSince' = TRUE
    /\ lastOp' = None
    /\ UNCHANGED <<lsToken, token, isLoading, location, pending, lastError,
                   lastResponse, lastFailed, lastAuthEvent, issued, pollerVars,
                   listVars, pageVars, dashHistory>>

\* authApi.login resolves with token t and a user whose subscription fields
\* are ss and ti: the store's login writes the token and the user.
LoginResolved(t, ss, ti) ==
    /\ pending["login"]
    /\ pending' = [pending EXCEPT !["login"] = FALSE]
    /\ lsToken' = t
    /\ user' = "u"
    /\ token' = t
    /\ isAuthenticated' = TRUE
    /\ isLoading' = FALSE
    /\ subscriptionStatus' = ss
    /\ tier' = ti
    /\ lastAuthEvent' = "login"
    /\ lastOp' = "login succeeded"
    /\ sentSince' = FALSE
    /\ issued' = t
    /\ UNCHANGED <<location, header, lastError, lastResponse, lastFailed,
                   pollerVars, listVars, pageVars, dashHistory>>

FormNext ==
    \/ ClickNewAgent
    \/ CloseForm
    \/ Submit
    \/ CreateSuccess
    \/ \E r \in Failures : CreateFail(r)
    \/ \E ss \in SubscriptionStatus, ti \in UserTier : RefreshUser(ss, ti)
    \/ Logout
    \/ \E k \in {"login"} : Send(k)
    \/ \E t \in Tokens, ss \in SubscriptionStatus, ti \in UserTier :
          LoginResolved(t, ss, ti)

FormSpec == Init /\ [][FormNext]_vars

\* C21: deploymentsApi.create is called only while the user has the active
\* starter subscription; without it the New Agent button does not open the
\* form, and whenever the form is open without it, also when the
\* subscription ended while the form was open, the locked card is rendered
\* in the place of the form.
C21_CreateGated ==
    [][/\ lastCreate' # "without subscription"
       /\ (createPending' /\ ~createPending) => hasActiveSub
       /\ (showCreateForm' /\ ~showCreateForm) => hasActiveSub
       /\ (dashboardShown' /\ showCreateForm' /\ ~hasActiveSub') =>
              createFormView' = "locked"
       /\ createFormView' = "form" => hasActiveSub']_vars

\* The form was opened and submitted with the subscription; the request
\* failed, the form stayed open, and now the user has no active subscription:
\* the locked card is shown.
C21_Witness ==
    /\ dashboardShown /\ showCreateForm
    /\ user # None /\ subscriptionStatus = "expired"
    /\ lastCreate = "with subscription" /\ ~createPending
    /\ createFormView = "locked"

====
